---- MODULE Spec2Model ----
(***************************************************************************)
(* State-machine model of the RecipeOptimizer core:                        *)
(*   - ProductionGraph.create (src/src/graph.py), the flow-graph builder;  *)
(*   - validate_product / ProductionProblem.validate (src/src/solver.py),  *)
(*     the memoized feasibility checker.                                   *)
(*                                                                         *)
(* Rates are Python floats in the source.  Here a rate is an integer       *)
(* number of thousandths (1000 stands for 1.0, 125 for 0.125), and         *)
(* arithmetic on rates is exact.  The rates of the model are chosen so     *)
(* that a value half-way between two hundredths is a multiple of 1/8:      *)
(* the halves met by the two-decimal rounding are exactly representable    *)
(* binary floats, on which Python's round() rounds half to even, and no    *)
(* other value is close enough to a half for float error to decide.        *)
(*                                                                         *)
(* A Python dict is modelled by the sequence of its <<key, value>> items   *)
(* in insertion order; a Python list by a sequence.                        *)
(***************************************************************************)
EXTENDS Integers, Sequences, FiniteSets, TLC

VARIABLES
    \* ---- arguments of ProductionGraph.create
    plan,               \* recipe_count_pairs: sequence of <<recipe name, scale>>
    inputs,             \* inputs: dict Product -> rate
    outputs,            \* outputs: sequence of the keys of the outputs dict
    \* ---- the ProductionGraph object and the vertices it owns
    vertices,           \* ProductionGraph.vertices
    edges,              \* ProductionGraph.edges
    src,                \* src[v]: Vertex.src of vertex v, neighbour index -> edge index
    dst,                \* dst[v]: Vertex.dst of vertex v, neighbour index -> edge index
    \* ---- locals of create() that live across loop iterations
    pc,                 \* position in create()
    i,                  \* index in vertices of the current outer-loop vertex
    remaining_demands,  \* machine vertex index -> dict Product -> rate
    err,                \* text of the exception that left create(), "" if none
    \* ---- a second build of the same arguments on a fresh object
    run,                \* 1 for the first build, 2 for the second
    prev,               \* what the first build left behind
    \* ---- ProductionProblem.validate and validate_product
    recipes,            \* self.recipes: the catalog, a sequence of recipe names
    input_products,     \* self.inputs.keys()
    targets,            \* self.outputs.keys(), in dict order
    hash_order,         \* the order in which this process iterates a set of Products
    visiting_set,       \* visiting_set of validate()
    valid_dict,         \* valid_dict of validate(): Product -> bool
    stack,              \* the suspended validate_product calls, innermost last
    vpc,                \* position in validate() and validate_product
    arg,                \* target_product of the call being entered or just returned
    ret,                \* value returned by the call that just ended
    qi,                 \* index in targets of the current top-level call
    results,            \* <<target, value>> of the top-level calls of this validate()
    pass,               \* 1 for the first validate(), 2 for the second
    first_results       \* results of the first validate()

gvars == <<plan, inputs, outputs, vertices, edges, src, dst, pc, i,
           remaining_demands, err, run, prev>>

vvars == <<recipes, input_products, targets, hash_order, visiting_set, valid_dict,
           stack, vpc, arg, ret, qi, results, pass, first_results>>

vars == <<gvars, vvars>>

----------------------------------------------------------------------------
(* Bounds of the model *)

\* plan scales range over MinScale..MaxScale
MaxScale == 2

\* the interpreter's recursion limit, scaled down: validate_product is not
\* entered below MaxDepth suspended calls
MaxDepth == 6

\* validate() is given at most MaxTargets output products
MaxTargets == 2

----------------------------------------------------------------------------
(* src/src/common.py *)

\* round(value, 2) on thousandths: to the nearest multiple of 10, a half
\* going to the even hundredth.  The int()/round(value, 1) branches only
\* change the Python type of the result, never its numeric value.
round_float_to_2(value) ==
    LET q == value \div 10
        r == value % 10
    IN  IF r < 5 THEN 10 * q
        ELSE IF r > 5 THEN 10 * (q + 1)
        ELSE IF q % 2 = 0 THEN 10 * q ELSE 10 * (q + 1)

----------------------------------------------------------------------------
(* dict helpers: a dict is a sequence of <<key, value>> items *)

Keys(d) == {d[n][1] : n \in 1..Len(d)}

Range(s) == {s[n] : n \in 1..Len(s)}

HasKey(d, k) == \E n \in 1..Len(d) : d[n][1] = k

Get(d, k) == d[CHOOSE n \in 1..Len(d) : d[n][1] = k][2]

\* d[k] = v for a key that is already present (the item keeps its position)
SetItem(d, k, v) == [n \in 1..Len(d) |-> IF d[n][1] = k THEN <<k, v>> ELSE d[n]]

EmptyMap == [x \in {} |-> 0]

\* m[k] = v on a map from vertex index to edge index
Put(m, k, v) == (k :> v) @@ m

RECURSIVE SumSet(_, _)
SumSet(S, f) ==
    IF S = {} THEN 0
    ELSE LET x == CHOOSE y \in S : TRUE IN f[x] + SumSet(S \ {x}, f)

----------------------------------------------------------------------------
(* src/src/recipe.py: Product and Recipe *)

\* A Product is its name (Product.__eq__ and __hash__ go by name).
\* A Recipe is [inputs, outputs], two dicts Product -> rate, found by its name.
Recipes ==
    [ Splitter  |-> [ inputs  |-> << <<"A", 1000>> >>,
                      outputs |-> << <<"B", 2000>>, <<"Q", 1000>> >> ],
      Assembler |-> [ inputs  |-> << <<"B", 1000>>, <<"Q", 1000>> >>,
                      outputs |-> << <<"C", 1000>> >> ],
      Blender   |-> [ inputs  |-> << <<"B", 3002>>, <<"A", 125>> >>,
                      outputs |-> << <<"C", 375>> >> ] ]

RecipeNames == DOMAIN Recipes

\* products an inputs dict may supply, rates it may give them, and products
\* an outputs dict may ask for
SourceProducts == {"A", "B"}

SupplyRates == {250, 3000}

OutputProducts == {"C", "Q"}

Scales == (-1)..MaxScale

\* all sequences without repetition over the set S
RECURSIVE Arrangements(_)
Arrangements(S) ==
    {<<>>} \cup UNION {{<<x>> \o t : t \in Arrangements(S \ {x})} : x \in S}

\* every way to give each element of the sequence ks a value of V, as a dict
RECURSIVE Dicts(_, _)
Dicts(ks, V) ==
    IF ks = <<>> THEN {<<>>}
    ELSE {<< <<Head(ks), v>> >> \o t : v \in V, t \in Dicts(Tail(ks), V)}

PlanSpace == UNION {Dicts(ks, Scales) : ks \in Arrangements(RecipeNames)}

InputSpace == UNION {Dicts(ks, SupplyRates) : ks \in Arrangements(SourceProducts)}

OutputSpace == Arrangements(OutputProducts)

----------------------------------------------------------------------------
(* src/src/graph.py: vertices and edges *)

FlowEdge(product, provide, consume) ==
    [product |-> product, provide |-> provide, consume |-> consume]

SourceVertex(product, rate) ==
    [kind |-> "Source", product |-> product, rate |-> rate, recipe |-> "", scale |-> 0]

SinkVertex(product, rate) ==
    [kind |-> "Sink", product |-> product, rate |-> rate, recipe |-> "", scale |-> 0]

MachineVertex(recipe, scale) ==
    [kind |-> "Machine", product |-> "", rate |-> 0, recipe |-> recipe, scale |-> scale]

WasteVertex(product, rate) ==
    [kind |-> "Waste", product |-> product, rate |-> rate, recipe |-> "", scale |-> 0]

\* MachineVertex.in_demands: the recipe's input rates times the scale
in_demands(v) ==
    LET d == Recipes[v.recipe].inputs
    IN  [n \in 1..Len(d) |-> <<d[n][1], d[n][2] * v.scale>>]

\* MachineVertex.out_available: the recipe's output rates times the scale
out_available(v) ==
    LET d == Recipes[v.recipe].outputs
    IN  [n \in 1..Len(d) |-> <<d[n][1], d[n][2] * v.scale>>]

\* The graph object as a value: [vertices, edges, src, dst, raised].
\* raised is "" until an exception leaves create(), then the exception's text.

\* a plausible slip: vertices and edges as class attributes, one pair of
\* lists shared by every ProductionGraph
SharedLists ==
    [vertices |-> vertices, edges |-> edges, src |-> src, dst |-> dst, raised |-> ""]

\* ProductionGraph.__init__: two empty lists
EmptyGraph ==
    [vertices |-> <<>>, edges |-> <<>>, src |-> <<>>, dst |-> <<>>, raised |-> ""]

\* ProductionGraph.add_vertex; the new Vertex starts with empty src and dst
add_vertex(g, v) ==
    [g EXCEPT !.vertices = Append(@, v),
              !.src = Append(@, EmptyMap),
              !.dst = Append(@, EmptyMap)]

\* ProductionGraph.add_edge
add_edge(g, e) == [g EXCEPT !.edges = Append(@, e)]

\* vertex.add_dst(to, flow), flow being the edge appended last; a Sink or a
\* Waste vertex raises instead
add_dst(g, from, to) ==
    IF g.vertices[from].kind \in {"Sink", "Waste"}
    THEN [g EXCEPT !.raised = "no outgoing edges"]
    ELSE [g EXCEPT !.dst[from] = Put(@, to, Len(g.edges))]

\* vertex.add_src(from, flow), flow being the edge appended last; a Source
\* raises instead
add_src(g, to, from) ==
    IF g.vertices[to].kind = "Source"
    THEN [g EXCEPT !.raised = "no incoming edges"]
    ELSE [g EXCEPT !.src[to] = Put(@, from, Len(g.edges))]

\* the three statements that create() repeats for every edge:
\* add_edge(edge); producer.add_dst(consumer, edge); consumer.add_src(producer, edge)
Connect(g, from, to, product, rate) ==
    LET g1 == add_edge(g, FlowEdge(product, rate, rate))
        g2 == add_dst(g1, from, to)
    IN  IF g2.raised # "" THEN g2 ELSE add_src(g2, to, from)

\* MachineVertex.satisfied: the in-flow of every demanded product, summed
\* over the entries of the machine's src map, reaches the demand
InFlow(g, m, product) ==
    LET from == {v \in DOMAIN g.src[m] : g.edges[g.src[m][v]].product = product}
    IN  SumSet(from, [v \in from |-> g.edges[g.src[m][v]].provide])

satisfied(g, m) ==
    LET d == in_demands(g.vertices[m])
    IN  \A n \in 1..Len(d) : ~(InFlow(g, m, d[n][1]) < d[n][2])

----------------------------------------------------------------------------
(* src/src/graph.py: ProductionGraph.create, pass by pass *)

\* lines 105-118: a Source per item of inputs, a Sink per key of outputs, a
\* Machine per plan entry whose scale is not 0
RECURSIVE AddSources(_, _)
AddSources(g, ins) ==
    IF ins = <<>> THEN g
    ELSE AddSources(add_vertex(g, SourceVertex(Head(ins)[1], round_float_to_2(Head(ins)[2]))),
                    Tail(ins))

RECURSIVE AddSinks(_, _)
AddSinks(g, outs) ==
    IF outs = <<>> THEN g
    ELSE AddSinks(add_vertex(g, SinkVertex(Head(outs), 0)), Tail(outs))

RECURSIVE AddMachines(_, _)
AddMachines(g, pairs) ==
    IF pairs = <<>> THEN g
    ELSE IF Head(pairs)[2] = 0 THEN AddMachines(g, Tail(pairs))
    ELSE AddMachines(add_vertex(g, MachineVertex(Head(pairs)[1], Head(pairs)[2])),
                     Tail(pairs))

\* line 137: a Source gives a machine its full scaled demand; a plausible
\* slip is to forget the scale
UnscaledEdgeRate(vertex, src_product) ==
    round_float_to_2(Get(Recipes[vertex.recipe].inputs, src_product))

SourceEdgeRate(vertex, src_product) ==
    round_float_to_2(Get(in_demands(vertex), src_product))

\* lines 129-144: the inner loop of the ingredient pass, from vertex j on.
\* Gives [g, unused_rate]; g.raised is set when the loop raised.
RECURSIVE FeedMachines(_, _, _, _)
FeedMachines(g, s, j, unused_rate) ==
    IF j > Len(g.vertices) THEN [g |-> g, unused_rate |-> unused_rate]
    ELSE
        LET vertex == g.vertices[j]
            src_product == g.vertices[s].product
        IN  IF vertex.kind # "Machine" THEN FeedMachines(g, s, j + 1, unused_rate)
            ELSE IF ~HasKey(in_demands(vertex), src_product)
            THEN FeedMachines(g, s, j + 1, unused_rate)
            ELSE
                LET demand == Get(in_demands(vertex), src_product)
                    g1 == Connect(g, s, j, src_product, SourceEdgeRate(vertex, src_product))
                    unused == round_float_to_2(unused_rate - demand)
                IN  IF g1.raised # "" THEN [g |-> g1, unused_rate |-> unused_rate]
                    ELSE IF unused < 0
                    THEN [g |-> [g1 EXCEPT !.raised = "Unused rate cannot be negative"],
                          unused_rate |-> unused]
                    ELSE FeedMachines(g1, s, j + 1, unused)

\* lines 145-153: what is left of a source or of a machine's product goes to
\* a new Waste vertex
AddWaste(g, from, product, unused_rate) ==
    IF unused_rate > 0
    THEN LET g1 == add_vertex(g, WasteVertex(product, round_float_to_2(unused_rate)))
         IN  Connect(g1, from, Len(g1.vertices), product, round_float_to_2(unused_rate))
    ELSE g

\* a plausible slip: the Waste vertex takes the Source's whole supply
\* instead of what the machines left
ConnectSourceWastingSupply(g, s) ==
    LET fed == FeedMachines(g, s, 1, g.vertices[s].rate)
    IN  IF fed.g.raised # "" THEN fed.g
        ELSE AddWaste(fed.g, s, g.vertices[s].product, g.vertices[s].rate)

\* lines 126-153: one iteration of the ingredient pass, for the Source at s
ConnectSource(g, s) ==
    LET fed == FeedMachines(g, s, 1, g.vertices[s].rate)
    IN  IF fed.g.raised # "" THEN fed.g
        ELSE AddWaste(fed.g, s, g.vertices[s].product, fed.unused_rate)

\* lines 156-159: remaining_demands[vertex] = vertex.in_demands().copy()
PrecomputeDemands(g) ==
    LET machines == {v \in 1..Len(g.vertices) : g.vertices[v].kind = "Machine"}
    IN  [v \in machines |-> in_demands(g.vertices[v])]

\* a plausible slip: the edge takes what is left after the consumer is
\* served instead of what the consumer is given
AssignLeftover(unused, remaining_demand) == unused - remaining_demand

\* a plausible slip: the consumer is handed all that is left of the output,
\* whatever it demands
AssignWhole(unused, remaining_demand) == unused

\* line 180: assign = min(unused_products[product], remaining_demand)
Assign(unused, remaining_demand) ==
    IF unused < remaining_demand THEN unused ELSE remaining_demand

\* lines 171-188: the loop over the consumers of one product of machine m,
\* from vertex j on.  Gives [g, rd, unused]: the graph, remaining_demands and
\* unused_products[product].
RECURSIVE AssignConsumers(_, _, _, _, _, _)
AssignConsumers(g, rd, unused, m, product, j) ==
    IF j > Len(g.vertices) THEN [g |-> g, rd |-> rd, unused |-> unused]
    ELSE
        LET vertex == g.vertices[j]
        IN  IF vertex.kind # "Machine" \/ j \notin DOMAIN rd
            THEN AssignConsumers(g, rd, unused, m, product, j + 1)
            ELSE IF ~HasKey(rd[j], product)
            THEN AssignConsumers(g, rd, unused, m, product, j + 1)
            ELSE
                LET remaining_demand == Get(rd[j], product)
                IN  IF remaining_demand < 0
                    THEN [g |-> [g EXCEPT !.raised = "Remaining demand cannot be negative"],
                          rd |-> rd, unused |-> unused]
                    ELSE IF remaining_demand = 0
                    THEN AssignConsumers(g, rd, unused, m, product, j + 1)
                    ELSE
                        LET assign == Assign(unused, remaining_demand)
                            g1 == Connect(g, m, j, product, round_float_to_2(assign))
                            rd1 == [rd EXCEPT ![j] =
                                       SetItem(@, product, remaining_demand - assign)]
                            unused1 == unused - assign
                        IN  IF g1.raised # ""
                            THEN [g |-> g1, rd |-> rd, unused |-> unused]
                            ELSE IF unused1 < 0
                            THEN [g |-> [g1 EXCEPT !.raised = "Unused rate cannot be negative"],
                                  rd |-> rd1, unused |-> unused1]
                            ELSE AssignConsumers(g1, rd1, unused1, m, product, j + 1)

\* lines 170-188: the loop over the products of machine m, from the k-th
\* item of available on.  Gives [g, rd, unused_products].
RECURSIVE AssignProducts(_, _, _, _, _)
AssignProducts(g, rd, unused_products, m, k) ==
    IF k > Len(unused_products)
    THEN [g |-> g, rd |-> rd, unused_products |-> unused_products]
    ELSE
        LET product == unused_products[k][1]
            one == AssignConsumers(g, rd, unused_products[k][2], m, product, 1)
            unused1 == SetItem(unused_products, product, one.unused)
        IN  IF one.g.raised # ""
            THEN [g |-> one.g, rd |-> one.rd, unused_products |-> unused1]
            ELSE AssignProducts(one.g, one.rd, unused1, m, k + 1)

\* lines 194-198: the first Sink of the product, 0 when there is none
FindSink(g, product) ==
    LET sinks == {v \in 1..Len(g.vertices) :
                     /\ g.vertices[v].kind = "Sink"
                     /\ g.vertices[v].product = product}
    IN  IF sinks = {} THEN 0 ELSE CHOOSE v \in sinks : \A w \in sinks : v <= w

\* lines 190-208: what is left of a requested product goes to its Sink, from
\* the k-th item of unused_products on.  Gives [g, unused_products].
RECURSIVE DeliverOutputs(_, _, _, _, _)
DeliverOutputs(g, unused_products, outs, m, k) ==
    IF k > Len(unused_products) THEN [g |-> g, unused_products |-> unused_products]
    ELSE
        LET product == unused_products[k][1]
            remain == unused_products[k][2]
            out_vertex == FindSink(g, product)
        IN  IF product \notin outs \/ remain = 0 \/ out_vertex = 0
            THEN DeliverOutputs(g, unused_products, outs, m, k + 1)
            ELSE
                LET g1 == Connect(g, m, out_vertex, product, round_float_to_2(remain))
                    g2 == [g1 EXCEPT !.vertices[out_vertex].rate = @ + remain]
                    unused1 == SetItem(unused_products, product, round_float_to_2(0))
                IN  IF g1.raised # "" THEN [g |-> g1, unused_products |-> unused_products]
                    ELSE DeliverOutputs(g2, unused1, outs, m, k + 1)

\* lines 210-218: what is still left goes to one Waste vertex per product
RECURSIVE WasteOutputs(_, _, _, _)
WasteOutputs(g, unused_products, m, k) ==
    IF k > Len(unused_products) \/ g.raised # "" THEN g
    ELSE WasteOutputs(AddWaste(g, m, unused_products[k][1], unused_products[k][2]),
                      unused_products, m, k + 1)

\* lines 166-218: one iteration of the output pass, for the Machine at m.
\* Gives [g, rd].
ConnectMachine(g, rd, outs, m) ==
    LET assigned == AssignProducts(g, rd, out_available(g.vertices[m]), m, 1)
        delivered == DeliverOutputs(assigned.g, assigned.unused_products, outs, m, 1)
    IN  IF assigned.g.raised # "" THEN [g |-> assigned.g, rd |-> assigned.rd]
        ELSE IF delivered.g.raised # "" THEN [g |-> delivered.g, rd |-> assigned.rd]
        ELSE [g |-> WasteOutputs(delivered.g, delivered.unused_products, m, 1),
              rd |-> assigned.rd]

\* the first vertex at index from or later that is of the given kind, and
\* Len + 1 when there is none: where `for v in self.vertices` next passes
\* its isinstance test
NextOf(vs, kind, from) ==
    LET S == {v \in from..Len(vs) : vs[v].kind = kind}
    IN  IF S = {} THEN Len(vs) + 1 ELSE CHOOSE v \in S : \A w \in S : v <= w

----------------------------------------------------------------------------
(* ProductionGraph.create as a state machine: one step per pass-1 block,    *)
(* per Source of the ingredient pass, per Machine of the output pass        *)

\* the graph object held in the variables
G == [vertices |-> vertices, edges |-> edges, src |-> src, dst |-> dst, raised |-> ""]

\* the graph object after the step
Becomes(g) ==
    /\ vertices' = g.vertices
    /\ edges' = g.edges
    /\ src' = g.src
    /\ dst' = g.dst
    /\ err' = g.raised

\* no validate() is running
ValidatorIdle ==
    /\ recipes = <<>>
    /\ input_products = {}
    /\ targets = <<>>
    /\ hash_order = <<>>
    /\ visiting_set = {}
    /\ valid_dict = EmptyMap
    /\ stack = <<>>
    /\ vpc = "end"
    /\ arg = ""
    /\ ret = FALSE
    /\ qi = 0
    /\ results = <<>>
    /\ pass = 0
    /\ first_results = <<>>

\* ProductionGraph.__init__ and the call create(plan, inputs, outputs)
InitCreate ==
    /\ plan \in PlanSpace
    /\ inputs \in InputSpace
    /\ outputs \in OutputSpace
    /\ vertices = <<>>
    /\ edges = <<>>
    /\ src = <<>>
    /\ dst = <<>>
    /\ pc = "start"
    /\ i = 0
    /\ remaining_demands = EmptyMap
    /\ err = ""
    /\ run = 1
    /\ prev = <<>>
    /\ ValidatorIdle

\* lines 105-118
AddVertices ==
    /\ pc = "start"
    /\ LET g == AddMachines(AddSinks(AddSources(G, inputs), outputs), plan)
           first == NextOf(g.vertices, "Source", 1)
       IN  /\ Becomes(g)
           /\ i' = first
           /\ pc' = IF first <= Len(g.vertices) THEN "sources" ELSE "demands"
    /\ UNCHANGED <<plan, inputs, outputs, remaining_demands, run, prev, vvars>>

\* lines 121-153, one Source; an exception leaves create() at once
IngredientEdges ==
    /\ pc = "sources"
    /\ LET g == ConnectSource(G, i)
           next == NextOf(g.vertices, "Source", i + 1)
       IN  /\ Becomes(g)
           /\ IF g.raised # "" THEN pc' = "raised" /\ i' = i
              ELSE /\ i' = next
                   /\ pc' = IF next <= Len(g.vertices) THEN "sources" ELSE "demands"
    /\ UNCHANGED <<plan, inputs, outputs, remaining_demands, run, prev, vvars>>

\* lines 156-159
RemainingDemands ==
    /\ pc = "demands"
    /\ remaining_demands' = PrecomputeDemands(G)
    /\ LET first == NextOf(vertices, "Machine", 1)
       IN  /\ i' = first
           /\ pc' = IF first <= Len(vertices) THEN "machines" ELSE "done"
    /\ UNCHANGED <<plan, inputs, outputs, vertices, edges, src, dst, err, run, prev, vvars>>

\* lines 162-218, one Machine; an exception leaves create() at once
OutputEdges ==
    /\ pc = "machines"
    /\ LET r == ConnectMachine(G, remaining_demands, Range(outputs), i)
           next == NextOf(r.g.vertices, "Machine", i + 1)
       IN  /\ Becomes(r.g)
           /\ remaining_demands' = r.rd
           /\ IF r.g.raised # "" THEN pc' = "raised" /\ i' = i
              ELSE /\ i' = next
                   /\ pc' = IF next <= Len(r.g.vertices) THEN "machines" ELSE "done"
    /\ UNCHANGED <<plan, inputs, outputs, run, prev, vvars>>

\* what a build leaves behind: the graph, and how create() ended
Outcome == [graph |-> G, pc |-> pc, err |-> err]

\* a second ProductionGraph() and create() with the same arguments
Rebuild ==
    /\ pc \in {"done", "raised"}
    /\ run = 1
    /\ run' = 2
    /\ prev' = <<Outcome>>
    /\ Becomes(EmptyGraph)
    /\ pc' = "start"
    /\ i' = 0
    /\ remaining_demands' = EmptyMap
    /\ UNCHANGED <<plan, inputs, outputs, vvars>>

NextCreate ==
    \/ AddVertices
    \/ IngredientEdges
    \/ RemainingDemands
    \/ OutputEdges

\* one build
SpecCreate == InitCreate /\ [][NextCreate]_vars

NextTwice ==
    \/ NextCreate
    \/ Rebuild

\* two builds of the same arguments, one after the other
SpecTwice == InitCreate /\ [][NextTwice]_vars

----------------------------------------------------------------------------
(* Properties of ProductionGraph.create *)

\* create() returned without raising
Built == pc = "done"

NonNegativePlan == \A n \in 1..Len(plan) : plan[n][2] >= 0

VerticesOf(kind) == {v \in 1..Len(vertices) : vertices[v].kind = kind}

\* the entries of vertex v's outgoing map whose edge carries the product
OutTo(v, product) == {w \in DOMAIN dst[v] : edges[dst[v][w]].product = product}

\* the sum of the rates of the edges of v's outgoing map towards the set W
OutRate(v, W) == SumSet(W, [w \in W |-> edges[dst[v][w]].provide])

\* the sum of the rates of all the edges of v's incoming map
InRate(v) == SumSet(DOMAIN src[v], [w \in DOMAIN src[v] |-> edges[src[v][w]].provide])

SuppliedBySource(product) ==
    \E s \in VerticesOf("Source") : vertices[s].product = product

\* C1 as stated: after a successful create() of a plan with non-negative
\* scales, every Machine is satisfied.
C1_AllMachinesSatisfied ==
    (Built /\ NonNegativePlan) => \A m \in VerticesOf("Machine") : satisfied(G, m)

\* C1, amended: after a successful create() of a plan with non-negative
\* scales, for every Machine and every input product of its recipe that a
\* Source supplies, the rates of the edges of the machine's incoming map that
\* carry the product sum to at least the scaled demand rounded to two
\* decimals.
C1_SourceFedInputsCovered ==
    (Built /\ NonNegativePlan) =>
        \A m \in VerticesOf("Machine") :
            LET d == in_demands(vertices[m])
            IN  \A n \in 1..Len(d) :
                    SuppliedBySource(d[n][1]) =>
                        InFlow(G, m, d[n][1]) >= round_float_to_2(d[n][2])

\* a successful build with a Machine that takes a positive rate of a product
\* from a Source and that is not satisfied
C1_Witness ==
    /\ Built
    /\ NonNegativePlan
    /\ \E m \in VerticesOf("Machine") :
           /\ ~satisfied(G, m)
           /\ \E n \in 1..Len(in_demands(vertices[m])) :
                  /\ SuppliedBySource(in_demands(vertices[m])[n][1])
                  /\ in_demands(vertices[m])[n][2] > 0

MachinesOf(s) == DOMAIN dst[s] \cap VerticesOf("Machine")

WastesOf(s) == DOMAIN dst[s] \cap VerticesOf("Waste")

\* C2 as stated: after a successful create(), for every Source the rates of
\* its edges to machines plus the rate of its Waste edge equal its supply
\* rate, and it has one Waste edge if that remainder is positive, none if it
\* is 0.  (Stated for the plans with non-negative scales, where it already
\* fails.)
C2_SourceConservedExactly ==
    (Built /\ NonNegativePlan) =>
        \A s \in VerticesOf("Source") :
            LET remainder == vertices[s].rate - OutRate(s, MachinesOf(s))
            IN  /\ OutRate(s, MachinesOf(s)) + OutRate(s, WastesOf(s)) = vertices[s].rate
                /\ Cardinality(WastesOf(s)) = IF remainder > 0 THEN 1 ELSE 0

\* every scaled demand for the product of Source s is exact to two decimals
ExactDemands(s) ==
    \A m \in VerticesOf("Machine") :
        LET d == in_demands(vertices[m])
        IN  \A n \in 1..Len(d) :
                d[n][1] = vertices[s].product => round_float_to_2(d[n][2]) = d[n][2]

Abs(x) == IF x < 0 THEN 0 - x ELSE x

\* C2, amended: after a successful create(), for every Source the rates of
\* its edges to machines plus the rate of its Waste edge differ from its
\* supply rate by at most 0.01 per edge to a machine, and are equal to it
\* when every scaled demand for its product is exact to two decimals; the
\* Source has at most one Waste edge, of a positive rate, and has one when
\* the edges to machines leave more than that tolerance of the supply.
C2_SourceConservedWithinRounding ==
    Built =>
        \A s \in VerticesOf("Source") :
            LET total == OutRate(s, MachinesOf(s)) + OutRate(s, WastesOf(s))
                tolerance == 10 * Cardinality(MachinesOf(s))
            IN  /\ Abs(total - vertices[s].rate) <= tolerance
                /\ ExactDemands(s) => total = vertices[s].rate
                /\ Cardinality(WastesOf(s)) <= 1
                /\ \A w \in WastesOf(s) : edges[dst[s][w]].provide > 0
                /\ vertices[s].rate - OutRate(s, MachinesOf(s)) > tolerance
                       => Cardinality(WastesOf(s)) = 1

\* a successful build in which a Source feeds a machine a rate that is not
\* exact to two decimals and wastes the rest
C2_Witness ==
    /\ Built
    /\ \E s \in VerticesOf("Source") :
           /\ ~ExactDemands(s)
           /\ MachinesOf(s) # {}
           /\ WastesOf(s) # {}

\* C3: after a successful create(), for every Machine and every output
\* product of its recipe, the rates of the edges of the machine's outgoing
\* map that carry the product sum to the output rate times the scale.
\* (Stated for the plans with non-negative scales and the outputs whose
\* scaled rate is exact to two decimals, where it already fails: rounding
\* plays no part in the failure.)
C3_MachineOutputConserved ==
    (Built /\ NonNegativePlan) =>
        \A m \in VerticesOf("Machine") :
            LET a == out_available(vertices[m])
            IN  \A n \in 1..Len(a) :
                    round_float_to_2(a[n][2]) = a[n][2] =>
                        OutRate(m, OutTo(m, a[n][1])) = a[n][2]

\* C4: after a successful create(), the receive_rate of every Sink is the
\* sum of the rates of the edges of its incoming map.  (Stated for the plans
\* with non-negative scales, where it already fails.)
C4_SinkRateIsInflow ==
    (Built /\ NonNegativePlan) => \A k \in VerticesOf("Sink") : vertices[k].rate = InRate(k)

\* C5: when the plan's scales are non-negative (the recipe rates and the
\* supply rates are), every edge in the edge list has a rate >= 0, at every
\* point of create(), also after it raised.
C5_NoNegativeEdge ==
    NonNegativePlan => \A e \in 1..Len(edges) : edges[e].provide >= 0

\* create() raised on a plan with non-negative scales after it added edges
C5_Witness ==
    /\ NonNegativePlan
    /\ pc = "raised"
    /\ \E e \in 1..Len(edges) : edges[e].provide > 0
    /\ VerticesOf("Machine") # {}

----------------------------------------------------------------------------
(* src/src/solver.py: validate_product and ProductionProblem.validate *)

\* The recipes a catalog is drawn from.  validate_product reads only the
\* keys of a recipe's inputs and outputs.
Catalog ==
    [ Loopback |-> [ inputs  |-> << <<"X", 1000>> >>,
                     outputs |-> << <<"Y", 1000>> >> ],
      Reverse  |-> [ inputs  |-> << <<"Y", 1000>> >>,
                     outputs |-> << <<"X", 1000>> >> ],
      Smelt    |-> [ inputs  |-> << <<"Ore", 1000>> >>,
                     outputs |-> << <<"Y", 1000>> >> ],
      Forge    |-> [ inputs  |-> << <<"Y", 1000>>, <<"X", 1000>> >>,
                     outputs |-> << <<"T", 1000>> >> ],
      Cast     |-> [ inputs  |-> << <<"X", 1000>> >>,
                     outputs |-> << <<"T", 1000>>, <<"Y", 1000>> >> ] ]

Products == <<"Ore", "T", "X", "Y">>

BaseProducts == {"Ore"}

Reverse(s) == [n \in 1..Len(s) |-> s[Len(s) + 1 - n]]

\* Recipe.in_products and Recipe.out_products: sets of Products
in_products(recipe) == Keys(Catalog[recipe].inputs)

out_products(recipe) == Keys(Catalog[recipe].outputs)

\* `for ingredient in recipe.in_products()`: a set is iterated in the order
\* of the hashes of its elements, which the process fixes when it starts
Iterate(S) == SelectSeq(hash_order, LAMBDA product : product \in S)

\* a plausible slip: no test of visiting_set
NeverVisiting(visiting, target_product) == FALSE

\* line 159: target_product in visiting_set
Visiting(visiting, target_product) == target_product \in visiting

\* lines 166-170: the `for recipe in recipes` loop of the call for target,
\* from the recipe at index from on, up to its next recursive call or to
\* what the call returns.  frame is the call suspended at a recursive call:
\* its target, the index of its recipe, the ingredients still to validate.
ScanRecipes(target, from) ==
    LET K == {k \in from..Len(recipes) : target \in out_products(recipes[k])}
        k == CHOOSE x \in K : \A y \in K : x <= y
        ingredients == Iterate(in_products(recipes[k]))
    IN  IF K = {}
        THEN [kind |-> "invalid", arg |-> "", frame |-> <<>>]
        ELSE IF ingredients = <<>>
        THEN [kind |-> "valid", arg |-> "", frame |-> <<>>]
        ELSE [kind |-> "call", arg |-> Head(ingredients),
              frame |-> <<[target |-> target, recipe |-> k, rest |-> Tail(ingredients)]>>]

\* a plausible slip: an ingredient that is not valid does not fail the recipe
AfterIngredientUnchecked(frame, value) ==
    IF frame.rest = <<>>
    THEN [kind |-> "valid", arg |-> "", frame |-> <<>>]
    ELSE [kind |-> "call", arg |-> Head(frame.rest),
          frame |-> <<[frame EXCEPT !.rest = Tail(@)]>>]

\* lines 172-174 and 176: what the suspended call does with the value that
\* the call for its ingredient returned
AfterIngredient(frame, value) ==
    IF ~value THEN ScanRecipes(frame.target, frame.recipe + 1)
    ELSE IF frame.rest = <<>>
    THEN [kind |-> "valid", arg |-> "", frame |-> <<>>]
    ELSE [kind |-> "call", arg |-> Head(frame.rest),
          frame |-> <<[frame EXCEPT !.rest = Tail(@)]>>]

\* a plausible slip: no visiting_set.remove on the path that returns False
ProceedKeepingFailed(step, target, callers, visiting) ==
    IF step.kind = "call"
    THEN /\ stack' = callers \o step.frame
         /\ arg' = step.arg
         /\ vpc' = "call"
         /\ visiting_set' = visiting
         /\ UNCHANGED <<valid_dict, ret>>
    ELSE /\ stack' = callers
         /\ valid_dict' = Put(valid_dict, target, step.kind = "valid")
         /\ visiting_set' = IF step.kind = "valid" THEN visiting \ {target} ELSE visiting
         /\ ret' = (step.kind = "valid")
         /\ vpc' = "return"
         /\ arg' = target

\* the call for target, with the calls below it in callers and target in
\* visiting, goes on to its next recursive call (line 172) or returns
\* (lines 177-179, lines 182-184)
Proceed(step, target, callers, visiting) ==
    IF step.kind = "call"
    THEN /\ stack' = callers \o step.frame
         /\ arg' = step.arg
         /\ vpc' = "call"
         /\ visiting_set' = visiting
         /\ UNCHANGED <<valid_dict, ret>>
    ELSE /\ stack' = callers
         /\ valid_dict' = Put(valid_dict, target, step.kind = "valid")
         /\ visiting_set' = visiting \ {target}
         /\ ret' = (step.kind = "valid")
         /\ vpc' = "return"
         /\ arg' = target

CatalogSpace == Arrangements(DOMAIN Catalog)

TargetSpace == {t \in Arrangements(Range(Products)) : Len(t) <= MaxTargets}

\* no create() is running
BuilderIdle ==
    /\ plan = <<>>
    /\ inputs = <<>>
    /\ outputs = <<>>
    /\ vertices = <<>>
    /\ edges = <<>>
    /\ src = <<>>
    /\ dst = <<>>
    /\ pc = "done"
    /\ i = 0
    /\ remaining_demands = EmptyMap
    /\ err = ""
    /\ run = 0
    /\ prev = <<>>

\* ProductionProblem(recipes, inputs, outputs).validate(): lines 48-49
InitValidate ==
    /\ recipes \in CatalogSpace
    /\ input_products \in SUBSET BaseProducts
    /\ targets \in TargetSpace
    /\ hash_order \in {Products, Reverse(Products)}
    /\ visiting_set = {}
    /\ valid_dict = EmptyMap
    /\ stack = <<>>
    /\ vpc = "idle"
    /\ arg = ""
    /\ ret = FALSE
    /\ qi = 1
    /\ results = <<>>
    /\ pass = 1
    /\ first_results = <<>>
    /\ BuilderIdle

\* lines 51-52: the call for the next output product
TopCall ==
    /\ vpc = "idle"
    /\ qi <= Len(targets)
    /\ arg' = targets[qi]
    /\ vpc' = "call"
    /\ UNCHANGED <<recipes, input_products, targets, hash_order, visiting_set,
                   valid_dict, stack, ret, qi, results, pass, first_results, gvars>>

\* lines 149-150: the product is in valid_dict
EnterMemo ==
    /\ vpc = "call"
    /\ arg \in DOMAIN valid_dict
    /\ ret' = valid_dict[arg]
    /\ vpc' = "return"
    /\ UNCHANGED <<recipes, input_products, targets, hash_order, visiting_set,
                   valid_dict, stack, arg, qi, results, pass, first_results, gvars>>

\* lines 153-155: the product is an input
EnterInput ==
    /\ vpc = "call"
    /\ arg \notin DOMAIN valid_dict
    /\ arg \in input_products
    /\ valid_dict' = Put(valid_dict, arg, TRUE)
    /\ ret' = TRUE
    /\ vpc' = "return"
    /\ UNCHANGED <<recipes, input_products, targets, hash_order, visiting_set,
                   stack, arg, qi, results, pass, first_results, gvars>>

\* lines 159-161: the product is being visited
EnterCycle ==
    /\ vpc = "call"
    /\ arg \notin DOMAIN valid_dict
    /\ arg \notin input_products
    /\ Visiting(visiting_set, arg)
    /\ valid_dict' = Put(valid_dict, arg, FALSE)
    /\ ret' = FALSE
    /\ vpc' = "return"
    /\ UNCHANGED <<recipes, input_products, targets, hash_order, visiting_set,
                   stack, arg, qi, results, pass, first_results, gvars>>

\* lines 163-184, up to the first recursive call or to the return
EnterVisit ==
    /\ vpc = "call"
    /\ arg \notin DOMAIN valid_dict
    /\ arg \notin input_products
    /\ ~Visiting(visiting_set, arg)
    /\ Len(stack) < MaxDepth
    /\ Proceed(ScanRecipes(arg, 1), arg, stack, visiting_set \cup {arg})
    /\ UNCHANGED <<recipes, input_products, targets, hash_order, qi, results, pass,
                   first_results, gvars>>

\* lines 172-184: a recursive call returned to the call that made it
Resume ==
    /\ vpc = "return"
    /\ stack # <<>>
    /\ LET frame == stack[Len(stack)]
       IN  Proceed(AfterIngredient(frame, ret), frame.target,
                   SubSeq(stack, 1, Len(stack) - 1), visiting_set)
    /\ UNCHANGED <<recipes, input_products, targets, hash_order, qi, results, pass,
                   first_results, gvars>>

\* lines 52-54: a top-level call returned to validate(), which returns False
\* at the first product that is not valid
TopReturn ==
    /\ vpc = "return"
    /\ stack = <<>>
    /\ results' = Append(results, <<targets[qi], ret>>)
    /\ IF ret THEN qi' = qi + 1 /\ vpc' = "idle"
       ELSE qi' = qi /\ vpc' = "end"
    /\ UNCHANGED <<recipes, input_products, targets, hash_order, visiting_set,
                   valid_dict, stack, arg, ret, pass, first_results, gvars>>

\* lines 55-56: every output product is valid
ValidateReturns ==
    /\ vpc = "idle"
    /\ qi > Len(targets)
    /\ vpc' = "end"
    /\ UNCHANGED <<recipes, input_products, targets, hash_order, visiting_set,
                   valid_dict, stack, arg, ret, qi, results, pass, first_results, gvars>>

\* validate() once more, in the same process, on a ProductionProblem whose
\* outputs dict lists the same products in the opposite order
SecondValidate ==
    /\ vpc = "end"
    /\ pass = 1
    /\ pass' = 2
    /\ first_results' = results
    /\ targets' = Reverse(targets)
    /\ visiting_set' = {}
    /\ valid_dict' = EmptyMap
    /\ results' = <<>>
    /\ qi' = 1
    /\ vpc' = "idle"
    /\ UNCHANGED <<recipes, input_products, hash_order, stack, arg, ret, gvars>>

NextValidate ==
    \/ TopCall
    \/ EnterMemo
    \/ EnterInput
    \/ EnterCycle
    \/ EnterVisit
    \/ Resume
    \/ TopReturn
    \/ ValidateReturns
    \/ SecondValidate

SpecValidate == InitValidate /\ [][NextValidate]_vars

\* the interpreter runs the next statement whenever there is one
SpecValidateFair == SpecValidate /\ WF_vars(NextValidate)

----------------------------------------------------------------------------
(* Properties of validate_product *)

\* the products derivable from S by the recipes of the catalog: the least
\* set that holds S and the outputs of every recipe whose inputs it holds
RECURSIVE Derivable(_)
Derivable(S) ==
    LET more == {product \in Range(Products) :
                    \E k \in 1..Len(recipes) :
                        /\ product \in out_products(recipes[k])
                        /\ in_products(recipes[k]) \subseteq S}
    IN  IF more \subseteq S THEN S ELSE Derivable(S \cup more)

\* the products that are available or that a finite acyclic chain of
\* recipes makes from the available ones
Producible == Derivable(input_products)

\* a top-level call of validate_product has just returned
TopLevelReturned == vpc = "return" /\ stack = <<>>

\* the catalog {Loopback: X -> Y, Reverse: Y -> X}, nothing available
CycleCatalog ==
    /\ Range(recipes) = {"Loopback", "Reverse"}
    /\ input_products = {}

\* C7: every validate_product call returns, whatever the catalog, cyclic
\* ones included: validate() comes to the end of its second run, which it
\* reaches only when each call it made has returned; and with the catalog
\* {X from Y, Y from X} and nothing available the call for X returns False.
C7_TerminatesAndRejectsCycle ==
    /\ <>(vpc = "end" /\ pass = 2)
    /\ []((CycleCatalog /\ TopLevelReturned /\ arg = "X") => ~ret)

\* the top-level call for X on the cycle catalog has returned False, after
\* the call for Y met X in visiting_set
C7_Witness ==
    /\ CycleCatalog
    /\ TopLevelReturned
    /\ arg = "X"
    /\ ~ret
    /\ "Y" \in DOMAIN valid_dict
    /\ visiting_set = {}

\* C8: validate_product has no false positive: whenever a call returns True
\* its target is producible, and every product that valid_dict holds as
\* True is producible.
C8_NoFalsePositive ==
    /\ (vpc = "return" /\ ret) => arg \in Producible
    /\ \A product \in DOMAIN valid_dict : valid_dict[product] => product \in Producible

\* a call returned True for a product that is not an input, and valid_dict
\* also holds a product as False
C8_Witness ==
    /\ vpc = "return"
    /\ ret
    /\ arg \notin input_products
    /\ \E product \in DOMAIN valid_dict : ~valid_dict[product]

\* C9: the first top-level call of a validate(), whose tables are empty,
\* returns True if and only if its target is producible.
C9_FreshCallDecidesProducible ==
    (TopLevelReturned /\ qi = 1) => (ret <=> targets[1] \in Producible)

\* the results of the two validate() runs for a product
ResultsFor(rs, product) == {rs[n][2] : n \in {k \in 1..Len(rs) : rs[k][1] = product}}

\* C10: a target validated in both orders of the same targets, with one
\* valid_dict and one visiting_set per order, gets the same result in both.
C10_ResultIndependentOfOrder ==
    (vpc = "end" /\ pass = 2) =>
        \A product \in Range(Products) :
            Cardinality(ResultsFor(results, product) \cup
                        ResultsFor(first_results, product)) <= 1

----------------------------------------------------------------------------
(* Error handling of ProductionGraph.create *)

\* create() was left by an exception
Raised == pc = "raised"

\* C11: when create() raises, the vertex list and the edge list of the
\* ProductionGraph are what they were before the call, that is empty.
\* (Stated for the plans with non-negative scales, where it already fails.)
C11_AbortLeavesGraphUntouched ==
    (Raised /\ NonNegativePlan) => (vertices = <<>> /\ edges = <<>>)

SomeNegativeScale == \E n \in 1..Len(plan) : plan[n][2] < 0

\* C12: a plan with an entry of negative scale is rejected before pass 1:
\* once create() has left its first statement it has raised, and no vertex
\* and no edge was created.
C12_NegativeScaleRejected ==
    (SomeNegativeScale /\ pc # "start") =>
        (Raised /\ vertices = <<>> /\ edges = <<>>)

\* the scaled demand of the plan entry n for the product, 0 when its recipe
\* does not take the product or its scale is 0 (no machine is made of it)
PlanDemand(n, product) ==
    LET d == Recipes[plan[n][1]].inputs
    IN  IF HasKey(d, product) THEN Get(d, product) * plan[n][2] ELSE 0

\* the sum over all machines of their scaled demand for the product
TotalDemand(product) ==
    SumSet(1..Len(plan), [n \in 1..Len(plan) |-> PlanDemand(n, product)])

\* some Source is asked for more than its supply rate
OverAllocated ==
    \E n \in 1..Len(inputs) :
        TotalDemand(inputs[n][1]) > round_float_to_2(inputs[n][2])

\* C13: for a plan with non-negative scales, create() ends by raising if
\* and only if, for some Source, the scaled demands of all machines for its
\* product sum to more than its supply rate.
C13_RaisesIffOverAllocated ==
    (NonNegativePlan /\ pc \in {"done", "raised"}) => (Raised <=> OverAllocated)

----------------------------------------------------------------------------
(* Allocation of machine outputs *)

\* C14: create() never creates an edge of rate 0: after a successful
\* create() of a plan with non-negative scales, every edge of the edge list
\* has a rate > 0.
C14_NoZeroRateEdge ==
    (Built /\ NonNegativePlan) => \A e \in 1..Len(edges) : edges[e].provide > 0

\* the elements of a set of numbers, in increasing order
RECURSIVE Ascending(_)
Ascending(S) ==
    IF S = {} THEN <<>>
    ELSE LET least == CHOOSE x \in S : \A y \in S : x <= y
         IN  <<least>> \o Ascending(S \ {least})

\* the machines whose recipe takes the product, in plan order
ConsumersOf(product) ==
    Ascending({j \in DOMAIN remaining_demands : HasKey(remaining_demands[j], product)})

\* first come, first served: what each of the consumers, whose remaining
\* demands are ds, gets of an output of which `left` is left
RECURSIVE Shares(_, _)
Shares(left, ds) ==
    IF ds = <<>> THEN <<>>
    ELSE LET share == IF left < Head(ds) THEN left ELSE Head(ds)
         IN  <<share>> \o Shares(left - share, Tail(ds))

\* what the step took off the remaining demand of consumer j for the product
Received(j, product) ==
    Get(remaining_demands[j], product) - Get(remaining_demands'[j], product)

\* the edges that serve the consumers cs with the shares as: none for a
\* consumer whose remaining demand was 0 already
RECURSIVE ShareEdges(_, _, _)
ShareEdges(product, cs, as) ==
    IF cs = <<>> THEN <<>>
    ELSE (IF Get(remaining_demands[Head(cs)], product) = 0 THEN <<>>
          ELSE <<FlowEdge(product, round_float_to_2(Head(as)), round_float_to_2(Head(as)))>>)
         \o ShareEdges(product, Tail(cs), Tail(as))

\* the consumer edges of the products of `available` from the k-th on
RECURSIVE ExpectedEdges(_, _)
ExpectedEdges(available, k) ==
    IF k > Len(available) THEN <<>>
    ELSE LET cs == ConsumersOf(available[k][1])
             ds == [n \in 1..Len(cs) |-> Get(remaining_demands[cs[n]], available[k][1])]
         IN  ShareEdges(available[k][1], cs, Shares(available[k][2], ds))
             \o ExpectedEdges(available, k + 1)

\* the step of the output pass for machine i served every product first
\* come, first served
ServedInPlanOrder ==
    LET available == out_available(vertices[i])
        expected == ExpectedEdges(available, 1)
    IN  /\ \A k \in 1..Len(available) :
               LET product == available[k][1]
                   cs == ConsumersOf(product)
                   ds == [n \in 1..Len(cs) |-> Get(remaining_demands[cs[n]], product)]
                   shares == Shares(available[k][2], ds)
               IN  /\ \A n \in 1..Len(cs) : Received(cs[n], product) = shares[n]
                   /\ \A n, later \in 1..Len(cs) :
                          (n < later /\ Received(cs[later], product) > 0)
                              => Get(remaining_demands'[cs[n]], product) = 0
        /\ Len(edges') >= Len(edges) + Len(expected)
        /\ SubSeq(edges', Len(edges) + 1, Len(edges) + Len(expected)) = expected

\* C15: allocation between machines is first come, first served in plan
\* order: in every step of the output pass of a plan with non-negative
\* scales, the consumers of each product of the producing machine receive, in
\* plan order, the minimum of what is left of the output and of their
\* remaining demand; a later consumer receives a positive rate only if the
\* remaining demand of every earlier one is met; and the edges created for
\* them carry these rates, rounded to two decimals.
C15_FirstComeFirstServed ==
    [][(pc = "machines" /\ pc' # "raised" /\ NonNegativePlan) => ServedInPlanOrder]_vars

\* a build in which a producer's output went to two consumers of a product:
\* the first has all it demands, the second has less than it demands
C15_Witness ==
    /\ Built
    /\ NonNegativePlan
    /\ \E product \in {"B", "Q"} :
           LET cs == ConsumersOf(product)
           IN  /\ Len(cs) = 2
               /\ Get(remaining_demands[cs[1]], product) = 0
               /\ Get(remaining_demands[cs[2]], product) > 0
               /\ Get(remaining_demands[cs[2]], product)
                      < Get(in_demands(vertices[cs[2]]), product)

----------------------------------------------------------------------------
(* Frame effects of validate_product *)

\* C16: a call of validate_product for a target that is in visiting_set
\* returns False and leaves valid_dict as it was.
C16_CycleLeavesMemoUnchanged ==
    [][(vpc = "call" /\ arg \in visiting_set) =>
           (vpc' = "return" /\ ~ret' /\ valid_dict' = valid_dict)]_vars

\* the targets of the validate_product calls that are on the call stack
OnStack == {stack[n].target : n \in 1..Len(stack)}

\* C17: a product is in visiting_set exactly while its exploration is on
\* the call stack: a call that returns, True or False, leaves visiting_set
\* as it found it, and visiting_set is empty after every top-level call.
C17_VisitingIsCallStack ==
    /\ visiting_set = OnStack
    /\ stack = <<>> => visiting_set = {}

\* a top-level call has returned after explorations that ended True and
\* explorations that ended False
C17_Witness ==
    /\ TopLevelReturned
    /\ visiting_set = {}
    /\ \E product \in DOMAIN valid_dict :
           product \notin input_products /\ valid_dict[product]
    /\ \E product \in DOMAIN valid_dict : ~valid_dict[product]

----------------------------------------------------------------------------
(* Edge list and adjacency maps *)

\* the entries of the outgoing maps, and of the incoming maps, whose value
\* is the edge e
OutEntries(e) ==
    {<<v, w>> \in (1..Len(vertices)) \X (1..Len(vertices)) :
        w \in DOMAIN dst[v] /\ dst[v][w] = e}

InEntries(e) ==
    {<<v, w>> \in (1..Len(vertices)) \X (1..Len(vertices)) :
        w \in DOMAIN src[v] /\ src[v][w] = e}

\* C18: after a successful create(), every edge of the edge list is the
\* value of exactly one entry of an outgoing map and of exactly one entry of
\* an incoming map, and there are as many edges as entries of outgoing maps.
\* (Stated for the plans with non-negative scales, where it already fails.)
C18_EdgeListMatchesMaps ==
    (Built /\ NonNegativePlan) =>
        /\ \A e \in 1..Len(edges) :
               Cardinality(OutEntries(e)) = 1 /\ Cardinality(InEntries(e)) = 1
        /\ Len(edges) = SumSet(1..Len(vertices),
                               [v \in 1..Len(vertices) |-> Cardinality(DOMAIN dst[v])])

\* C19: after a successful create() of a plan with non-negative scales, no
\* machine is over-supplied: the rates of the edges of its incoming map that
\* carry an input product, from Sources and from Machines together, sum to
\* no more than its scaled demand for the product.  (The demand is taken
\* rounded to two decimals, as the edges are: rounding plays no part in the
\* failure.)
C19_NoOverSupply ==
    (Built /\ NonNegativePlan) =>
        \A m \in VerticesOf("Machine") :
            LET d == in_demands(vertices[m])
            IN  \A n \in 1..Len(d) :
                    InFlow(G, m, d[n][1]) <= round_float_to_2(d[n][2])

====
